---- MODULE Spec2Model ----
(***************************************************************************)
(* wee_database: resolution of the --date / --from / --to options into a   *)
(* date-time window (_parse_dates) and the date-scoped routines that       *)
(* consume it (rebuildDaily, reweight, calc_missing).                      *)
(*                                                                         *)
(* Encoding.  A command-line string is a sequence of tokens: a date token  *)
(* "YYYY-mm-dd" carries the number of the day it names, a time token       *)
(* "HH:MM" the minute of the day, "T" is the letter T, and "junk" is any   *)
(* other text.  A datetime.datetime is a day number and a second of the    *)
(* day.  Python's None is a record with isNone = TRUE.                     *)
(***************************************************************************)
EXTENDS Integers, Sequences, FiniteSets, TLC

VARIABLES options, pc, from_dt, to_dt, exc, ans, db, storeLog,
          output, prompts,
          table, obs_list, obs_type_list, records, record, icol, found, writes,
          previous

\* What the process printed, and the questions asked with their answers.
ioVars == <<output, prompts>>

\* The state of a check_strings scan.
scanVars ==
    <<table, obs_list, obs_type_list, records, record, icol, found, writes, previous>>

vars == <<options, pc, from_dt, to_dt, exc, ans, db, storeLog, ioVars, scanVars>>

(***************************************************************************)
(* Bounds                                                                  *)
(***************************************************************************)
\* Days are numbered 1..MaxDay; day MaxDay stands for the last day a
\* datetime can hold (datetime.max is 9999-12-31T23:59:59.999999).
MaxDay == 3

\* Minutes of the day used in "HH:MM" tokens: 00:00, one mid-day value.
MidMinute == 720

(***************************************************************************)
(* Program constants                                                       *)
(***************************************************************************)
SecondsPerDay == 86400
SecondsPerMinute == 60
MinutesPerDay == 1440

(***************************************************************************)
(* Values                                                                  *)
(***************************************************************************)
NoneStr == [isNone |-> TRUE, str |-> <<>>]
Str(s) == [isNone |-> FALSE, str |-> s]

NoneDt == [isNone |-> TRUE, day |-> 0, sec |-> 0]
Datetime(d, s) == [isNone |-> FALSE, day |-> d, sec |-> s]

DayTok(d) == [k |-> "date", v |-> d]
TimeTok(m) == [k |-> "time", v |-> m]
TTok == [k |-> "T", v |-> 0]
JunkTok == [k |-> "junk", v |-> 0]

NoExc == [type |-> "None", msg |-> ""]
ValueError(m) == [type |-> "ValueError", msg |-> m]
OverflowError == [type |-> "OverflowError", msg |-> "date value out of range"]
ViolatedPrecondition(m) == [type |-> "ViolatedPrecondition", msg |-> m]
OperationalError == [type |-> "OperationalError", msg |-> ""]
TypeError == [type |-> "TypeError", msg |-> ""]
SystemExit(m) == [type |-> "SystemExit", msg |-> m]

\* Python truthiness of an option value: None and "" are false.
Truthy(o) == ~o.isNone /\ Len(o.str) > 0

\* 'T' in s
HasT(o) == \E i \in 1..Len(o.str) : o.str[i].k = "T"

\* datetime comparison a < b
DtLess(a, b) == a.day < b.day \/ (a.day = b.day /\ a.sec < b.sec)

\* datetime + timedelta(days, seconds); the result is None when it lies
\* beyond datetime.max, where Python raises OverflowError.
AddTimedelta(dt, days, seconds) ==
    LET total == dt.sec + seconds
        d == dt.day + days + (total \div SecondsPerDay)
        s == total % SecondsPerDay
    IN IF d > MaxDay THEN NoneDt ELSE Datetime(d, s)

\* datetime.datetime.strptime(s, "%Y-%m-%d"); None stands for ValueError.
StrptimeDate(o) ==
    IF /\ Len(o.str) = 1
       /\ o.str[1].k = "date"
       /\ o.str[1].v \in 1..MaxDay
    THEN Datetime(o.str[1].v, 0)
    ELSE NoneDt

\* datetime.datetime.strptime(s, "%Y-%m-%dT%H:%M"); None stands for ValueError.
StrptimeDateTime(o) ==
    IF /\ Len(o.str) = 3
       /\ o.str[1].k = "date" /\ o.str[1].v \in 1..MaxDay
       /\ o.str[2].k = "T"
       /\ o.str[3].k = "time" /\ o.str[3].v \in 0..(MinutesPerDay - 1)
    THEN Datetime(o.str[1].v, o.str[3].v * SecondsPerMinute)
    ELSE NoneDt

Returned(f, t) == [exc |-> NoExc, from_dt |-> f, to_dt |-> t]
Raised(e) == [exc |-> e, from_dt |-> NoneDt, to_dt |-> NoneDt]

(***************************************************************************)
(* _parse_dates                                                            *)
(***************************************************************************)
\* DateWindow with the day expanded for every action (no rebuild branch).
DateWindow_expandAlways(opts, dt) ==
    LET t == AddTimedelta(dt, 1, 0)
    IN IF t.isNone THEN Raised(OverflowError) ELSE Returned(dt, t)

\* The window derived from a valid --date, by the action to perform.
DateWindow(opts, dt) ==
    IF opts.rebuild_daily \/ opts.reweight
    THEN Returned(dt, dt)
    ELSE IF opts.calc_missing
    THEN LET t == AddTimedelta(dt, 1, 0)
             f == AddTimedelta(dt, 0, 1)
         IN IF t.isNone \/ f.isNone THEN Raised(OverflowError) ELSE Returned(f, t)
    ELSE LET t == AddTimedelta(dt, 1, 0)
         IN IF t.isNone THEN Raised(OverflowError) ELSE Returned(dt, t)

\* The branch taken when options.date is true.
ParseDateOption(opts) ==
    IF Truthy(opts.from_date) \/ Truthy(opts.to_date)
    THEN Raised(ValueError("Specify either --date or a --from and --to combination; not both"))
    ELSE LET dt == StrptimeDate(opts.date)
         IN IF dt.isNone
            THEN Raised(ValueError("Invalid --date option specified."))
            ELSE DateWindow(opts, dt)

\* ParseFrom with the one-second shift of the --date branch applied to a
\* date-only --from under calc-missing.
ParseFrom_shiftForCalcMissing(opts) ==
    IF ~Truthy(opts.from_date)
    THEN [exc |-> NoExc, dt |-> NoneDt]
    ELSE LET dt == IF HasT(opts.from_date)
                   THEN StrptimeDateTime(opts.from_date)
                   ELSE StrptimeDate(opts.from_date)
         IN IF dt.isNone
            THEN [exc |-> ValueError("Invalid --from option specified."), dt |-> NoneDt]
            ELSE IF opts.calc_missing /\ ~HasT(opts.from_date)
            THEN [exc |-> NoExc, dt |-> Datetime(dt.day, dt.sec + 1)]
            ELSE [exc |-> NoExc, dt |-> dt]

\* The value of _from_dt after the --from block; exc is set when it raises.
ParseFrom(opts) ==
    IF ~Truthy(opts.from_date)
    THEN [exc |-> NoExc, dt |-> NoneDt]
    ELSE LET dt == IF HasT(opts.from_date)
                   THEN StrptimeDateTime(opts.from_date)
                   ELSE StrptimeDate(opts.from_date)
         IN IF dt.isNone
            THEN [exc |-> ValueError("Invalid --from option specified."), dt |-> NoneDt]
            ELSE [exc |-> NoExc, dt |-> dt]

\* ToDateOnly with no expansion for any action.
ToDateOnly_neverExpand(opts, dt) == [exc |-> NoExc, dt |-> dt]

\* ToDateOnly with the expansion to the next midnight for every action.
ToDateOnly_alwaysExpand(opts, dt) ==
    LET t == AddTimedelta(dt, 1, 0)
    IN IF t.isNone
       THEN [exc |-> OverflowError, dt |-> NoneDt]
       ELSE [exc |-> NoExc, dt |-> t]

\* A date-only --to after the adjustment for the action to perform.
ToDateOnly(opts, dt) ==
    IF opts.rebuild_daily \/ opts.reweight
    THEN [exc |-> NoExc, dt |-> dt]
    ELSE LET t == AddTimedelta(dt, 1, 0)
         IN IF t.isNone
            THEN [exc |-> OverflowError, dt |-> NoneDt]
            ELSE [exc |-> NoExc, dt |-> t]

\* The value of _to_dt after the --to block; exc is set when it raises.
ParseTo(opts) ==
    IF ~Truthy(opts.to_date)
    THEN [exc |-> NoExc, dt |-> NoneDt]
    ELSE IF HasT(opts.to_date)
    THEN LET dt == StrptimeDateTime(opts.to_date)
         IN IF dt.isNone
            THEN [exc |-> ValueError("Invalid --to option specified."), dt |-> NoneDt]
            ELSE [exc |-> NoExc, dt |-> dt]
    ELSE LET dt == StrptimeDate(opts.to_date)
         IN IF dt.isNone
            THEN [exc |-> ValueError("Invalid --to option specified."), dt |-> NoneDt]
            ELSE ToDateOnly(opts, dt)

\* CheckOrder without the comparison.
CheckOrder_noCheck(f, t) == Returned(f, t)

\* CheckOrder that also rejects a window with a missing bound.
CheckOrder_requiresBoth(f, t) ==
    IF (f.isNone /\ ~t.isNone) \/ (~f.isNone /\ t.isNone)
       \/ (~f.isNone /\ ~t.isNone /\ DtLess(t, f))
    THEN Raised(ViolatedPrecondition("--from value is later than --to value."))
    ELSE Returned(f, t)

\* The final check that from is no later than to.
CheckOrder(f, t) ==
    IF ~f.isNone /\ ~t.isNone /\ DtLess(t, f)
    THEN Raised(ViolatedPrecondition("--from value is later than --to value."))
    ELSE Returned(f, t)

_parse_dates(opts) ==
    IF Truthy(opts.date)
    THEN ParseDateOption(opts)
    ELSE LET f == ParseFrom(opts)
         IN IF f.exc # NoExc
            THEN Raised(f.exc)
            ELSE LET t == ParseTo(opts)
                 IN IF t.exc # NoExc
                    THEN Raised(t.exc)
                    ELSE CheckOrder(f.dt, t.dt)

(***************************************************************************)
(* Inputs                                                                  *)
(***************************************************************************)
\* The strings tried for --date, --from and --to: the empty string, dates
\* (the tokens 0 and MaxDay + 1 name no day, as 2023-02-30 does), date-times,
\* a date-time with the time 24:00, a date followed by a bare T, and junk.
OptionStrs ==
    {<<>>}
    \cup {<<DayTok(d)>> : d \in 0..(MaxDay + 1)}
    \cup {<<DayTok(d), TTok, TimeTok(m)>> : d \in 1..MaxDay, m \in {0, MidMinute}}
    \cup {<<DayTok(1), TTok, TimeTok(MinutesPerDay)>>, <<DayTok(1), TTok>>, <<JunkTok>>}

OptionValues == {NoneStr} \cup {Str(s) : s \in OptionStrs}

\* The strings tried when a whole routine is run.
RoutineStrs ==
    {<<>>, <<DayTok(1)>>, <<DayTok(MaxDay)>>, <<DayTok(2), TTok, TimeTok(MidMinute)>>,
     <<JunkTok>>}

RoutineValues == {NoneStr} \cup {Str(s) : s \in RoutineStrs}

\* The options of a date-scoped verb as main hands them on: main has checked
\* that exactly one verb is given.
DateVerbs == {"rebuild_daily", "reweight", "calc_missing"}

\* The options object of a command line with no option at all: a store_true
\* verb that is absent is None (FALSE here), a value option that is absent is
\* None; args counts the positional arguments.
NoOptions ==
    [create |-> FALSE, reconfigure |-> FALSE, transfer |-> FALSE,
     add_column |-> NoneStr, type |-> NoneStr,
     rename_column |-> NoneStr, to_name |-> NoneStr,
     drop_columns |-> NoneStr,
     check |-> FALSE, update |-> FALSE, calc_missing |-> FALSE,
     check_strings |-> FALSE, fix_strings |-> FALSE, drop_daily |-> FALSE,
     rebuild_daily |-> FALSE, reweight |-> FALSE,
     date |-> NoneStr, from_date |-> NoneStr, to_date |-> NoneStr,
     dest_binding |-> NoneStr, dry_run |-> FALSE, args |-> 0]

VerbOptions(verb, d, f, t, dry) ==
    [NoOptions EXCEPT !.date = d, !.from_date = f, !.to_date = t,
                      !.rebuild_daily = (verb = "rebuild_daily"),
                      !.reweight = (verb = "reweight"),
                      !.calc_missing = (verb = "calc_missing"),
                      !.dry_run = dry]

(***************************************************************************)
(* _parse_dates on its own, for every options object                       *)
(***************************************************************************)
InitParse ==
    /\ options \in [date : OptionValues, from_date : OptionValues, to_date : OptionValues,
                    rebuild_daily : BOOLEAN, reweight : BOOLEAN, calc_missing : BOOLEAN,
                    dry_run : {FALSE}]
    /\ pc = "_parse_dates"
    /\ from_dt = NoneDt
    /\ to_dt = NoneDt
    /\ exc = NoExc
    /\ ans = ""
    /\ db = [archive |-> "data", daily |-> TRUE]
    /\ storeLog = <<>>
    /\ output = <<>>
    /\ prompts = <<>>
    /\ table = <<>>
    /\ obs_list = <<>>
    /\ obs_type_list = <<>>
    /\ records = 0
    /\ record = <<>>
    /\ icol = 0
    /\ found = <<>>
    /\ writes = <<>>
    /\ previous = <<>>

\* from_dt, to_dt = _parse_dates(options)
CallParseDates ==
    /\ pc = "_parse_dates"
    /\ LET r == _parse_dates(options)
       IN /\ exc' = r.exc
          /\ from_dt' = r.from_dt
          /\ to_dt' = r.to_dt
          /\ pc' = IF r.exc = NoExc THEN "returned" ELSE "raised"
    /\ UNCHANGED <<options, ans, db, storeLog, ioVars, scanVars>>

NextParse == CallParseDates

SpecParse == InitParse /\ [][NextParse]_vars

(***************************************************************************)
(* The date-scoped routines, as main runs them                             *)
(***************************************************************************)
\* The store behind the binding: the archive table is missing (no database),
\* empty or holds records; daily tells whether the daily summary tables exist.
StoreStates ==
    {[archive |-> "missing", daily |-> FALSE]}
    \cup [archive : {"empty", "data"}, daily : BOOLEAN]

Init ==
    /\ \E verb \in DateVerbs, d \in RoutineValues, f \in RoutineValues,
          t \in RoutineValues, dry \in BOOLEAN :
          options = VerbOptions(verb, d, f, t, dry)
    /\ pc = "main"
    /\ from_dt = NoneDt
    /\ to_dt = NoneDt
    /\ exc = NoExc
    /\ ans = ""
    /\ db \in StoreStates
    /\ storeLog = <<>>
    /\ output = <<>>
    /\ prompts = <<>>
    /\ table = <<>>
    /\ obs_list = <<>>
    /\ obs_type_list = <<>>
    /\ records = 0
    /\ record = <<>>
    /\ icol = 0
    /\ found = <<>>
    /\ writes = <<>>
    /\ previous = <<>>

\* weewx.manager.Manager.open succeeds when the database exists.
ManagerOpens == db.archive # "missing"

\* weewx.manager.open_manager_with_config without initialize succeeds when
\* the database and its daily summary tables exist.
ManagerWithConfigOpens == db.archive # "missing" /\ db.daily

\* main: the elif chain that runs the routine of the verb; a value verb
\* given as the empty string is false in the chain.
main_dispatch ==
    /\ pc = "main"
    /\ pc' = IF options.create THEN "createMainDatabase"
             ELSE IF options.reconfigure THEN "reconfigMainDatabase"
             ELSE IF options.transfer THEN "transferDatabase"
             ELSE IF Truthy(options.add_column) THEN "addColumn"
             ELSE IF Truthy(options.rename_column) THEN "renameColumn"
             ELSE IF Truthy(options.drop_columns) THEN "dropColumns"
             ELSE IF options.check THEN "check"
             ELSE IF options.update THEN "update"
             ELSE IF options.calc_missing THEN "calc_missing_bounds"
             ELSE IF options.check_strings THEN "check_strings"
             ELSE IF options.fix_strings THEN "check_strings"
             ELSE IF options.drop_daily THEN "dropDaily"
             ELSE IF options.rebuild_daily THEN "rebuildDaily_bounds"
             ELSE IF options.reweight THEN "reweight_parse"
             ELSE "main_end"
    /\ UNCHANGED <<options, from_dt, to_dt, exc, ans, db, storeLog, ioVars, scanVars>>

\* rebuildDaily: open the archive and read its first and last timestamps.
rebuildDaily_bounds ==
    /\ pc = "rebuildDaily_bounds"
    /\ IF ManagerOpens
       THEN /\ storeLog' = storeLog \o <<"open", "firstGoodStamp", "lastGoodStamp", "close">>
            /\ pc' = "rebuildDaily_parse"
            /\ exc' = exc
       ELSE /\ storeLog' = Append(storeLog, "open failed")
            /\ pc' = "raised"
            /\ exc' = OperationalError
    /\ UNCHANGED <<options, from_dt, to_dt, ans, db, ioVars, scanVars>>

\* rebuildDaily: from_dt, to_dt = _parse_dates(options)
rebuildDaily_parse ==
    /\ pc = "rebuildDaily_parse"
    /\ LET r == _parse_dates(options)
       IN /\ exc' = r.exc
          /\ from_dt' = r.from_dt
          /\ to_dt' = r.to_dt
          /\ pc' = IF r.exc = NoExc THEN "rebuildDaily_prompt" ELSE "raised"
    /\ UNCHANGED <<options, ans, db, storeLog, ioVars, scanVars>>

\* rebuildDaily: ans = y_or_n("Proceed (y/n)? ")
rebuildDaily_prompt ==
    /\ pc = "rebuildDaily_prompt"
    /\ \E a \in {"y", "n"} :
          /\ ans' = a
          /\ prompts' = Append(prompts, [q |-> "Proceed (y/n)? ", a |-> a])
          /\ pc' = IF a = "n" THEN "done" ELSE "rebuildDaily_rebuild"
    /\ UNCHANGED <<options, from_dt, to_dt, exc, db, storeLog, output, scanVars>>

\* rebuildDaily: open the database with initialize=True, which creates the
\* daily summary tables when they do not exist, then backfill unless this is
\* a dry run.
rebuildDaily_rebuild ==
    /\ pc = "rebuildDaily_rebuild"
    /\ db' = [db EXCEPT !.daily = TRUE]
    /\ storeLog' = storeLog
                   \o <<"open_initialize">>
                   \o (IF db.daily THEN <<>> ELSE <<"create_daily_tables">>)
                   \o (IF options.dry_run THEN <<>> ELSE <<"backfill_day_summary">>)
                   \o <<"close">>
    /\ pc' = "done"
    /\ UNCHANGED <<options, from_dt, to_dt, exc, ans, ioVars, scanVars>>

\* reweight: from_dt, to_dt = _parse_dates(options)
reweight_parse ==
    /\ pc = "reweight_parse"
    /\ LET r == _parse_dates(options)
       IN /\ exc' = r.exc
          /\ from_dt' = r.from_dt
          /\ to_dt' = r.to_dt
          /\ pc' = IF r.exc = NoExc THEN "reweight_prompt" ELSE "raised"
    /\ UNCHANGED <<options, ans, db, storeLog, ioVars, scanVars>>

\* reweight: ans = y_or_n("Proceed (y/n)? ")
reweight_prompt ==
    /\ pc = "reweight_prompt"
    /\ \E a \in {"y", "n"} :
          /\ ans' = a
          /\ prompts' = Append(prompts, [q |-> "Proceed (y/n)? ", a |-> a])
          /\ pc' = IF a = "n" THEN "done" ELSE "reweight_recalculate"
    /\ UNCHANGED <<options, from_dt, to_dt, exc, db, storeLog, output, scanVars>>

\* reweight: open the database and recalculate the weights unless this is a
\* dry run.
reweight_recalculate ==
    /\ pc = "reweight_recalculate"
    /\ IF ManagerWithConfigOpens
       THEN /\ storeLog' = storeLog
                           \o <<"open">>
                           \o (IF options.dry_run THEN <<>> ELSE <<"recalculate_weights">>)
                           \o <<"close">>
            /\ pc' = "done"
            /\ exc' = exc
       ELSE /\ storeLog' = Append(storeLog, "open failed")
            /\ pc' = "raised"
            /\ exc' = OperationalError
    /\ UNCHANGED <<options, from_dt, to_dt, ans, db, ioVars, scanVars>>

\* calc_missing: open the archive and read its first and last timestamps.
calc_missing_bounds ==
    /\ pc = "calc_missing_bounds"
    /\ IF ManagerOpens
       THEN /\ storeLog' = storeLog \o <<"open", "firstGoodStamp", "lastGoodStamp", "close">>
            /\ pc' = "calc_missing_parse"
            /\ exc' = exc
       ELSE /\ storeLog' = Append(storeLog, "open failed")
            /\ pc' = "raised"
            /\ exc' = OperationalError
    /\ UNCHANGED <<options, from_dt, to_dt, ans, db, ioVars, scanVars>>

\* calc_missing: start_dt, stop_dt = _parse_dates(options), then the
\* timestamps; first_ts - 1 is a TypeError when there is no start and the
\* archive is empty (first_ts is None).
calc_missing_parse ==
    /\ pc = "calc_missing_parse"
    /\ LET r == _parse_dates(options)
       IN /\ from_dt' = r.from_dt
          /\ to_dt' = r.to_dt
          /\ IF r.exc # NoExc
             THEN exc' = r.exc /\ pc' = "raised"
             ELSE IF r.from_dt.isNone /\ db.archive = "empty"
             THEN exc' = TypeError /\ pc' = "raised"
             ELSE exc' = exc /\ pc' = "calc_missing_prompt"
    /\ UNCHANGED <<options, ans, db, storeLog, ioVars, scanVars>>

\* calc_missing: ans = y_or_n("Proceed (y/n)? ")
calc_missing_prompt ==
    /\ pc = "calc_missing_prompt"
    /\ \E a \in {"y", "n"} :
          /\ ans' = a
          /\ prompts' = Append(prompts, [q |-> "Proceed (y/n)? ", a |-> a])
          /\ pc' = IF a = "n" THEN "done" ELSE "calc_missing_run"
    /\ UNCHANGED <<options, from_dt, to_dt, exc, db, storeLog, output, scanVars>>

\* calc_missing: run CalcMissing; an UnknownBinding error ends in sys.exit.
calc_missing_run ==
    /\ pc = "calc_missing_run"
    /\ storeLog' = Append(storeLog, "CalcMissing.run")
    /\ \E known \in BOOLEAN :
          IF known
          THEN pc' = "done" /\ exc' = exc
          ELSE pc' = "raised" /\ exc' = SystemExit("Nothing done. Aborting.")
    /\ UNCHANGED <<options, from_dt, to_dt, ans, db, ioVars, scanVars>>

Next ==
    \/ main_dispatch
    \/ rebuildDaily_bounds
    \/ rebuildDaily_parse
    \/ rebuildDaily_prompt
    \/ rebuildDaily_rebuild
    \/ reweight_parse
    \/ reweight_prompt
    \/ reweight_recalculate
    \/ calc_missing_bounds
    \/ calc_missing_parse
    \/ calc_missing_prompt
    \/ calc_missing_run

Spec == Init /\ [][Next]_vars

(***************************************************************************)
(* main: the command line and its validation                               *)
(***************************************************************************)
\* The verbs given by a store_true flag and the verbs that take a value.
FlagVerbs ==
    {"create", "reconfigure", "transfer", "check", "update", "calc_missing",
     "check_strings", "fix_strings", "drop_daily", "rebuild_daily", "reweight"}
ValueVerbs == {"add_column", "rename_column", "drop_columns"}
VerbNames == FlagVerbs \cup ValueVerbs

\* The options that take a value and are not verbs.
ValueOptions == {"type", "to_name", "date", "from_date", "to_date", "dest_binding"}

\* The most verbs, options and positional arguments on a command line tried.
MaxVerbs == 2
MaxValueOptions == 2
MaxArgs == 2

\* The values tried for an option that takes one: the empty string and a
\* non-empty string.
SuppliedValues == {Str(<<>>), Str(<<JunkTok>>)}

\* The options object optparse builds from a command line.
CommandLine(verbs, vval, opts, oval, dry, nargs) ==
    [f \in DOMAIN NoOptions |->
        IF f \in FlagVerbs THEN f \in verbs
        ELSE IF f \in ValueVerbs THEN (IF f \in verbs THEN vval[f] ELSE NoneStr)
        ELSE IF f \in ValueOptions THEN (IF f \in opts THEN oval[f] ELSE NoneStr)
        ELSE IF f = "dry_run" THEN dry
        ELSE nargs]

InitMain ==
    /\ \E verbs \in {v \in SUBSET VerbNames : Cardinality(v) <= MaxVerbs} :
       \E vval \in [verbs \cap ValueVerbs -> SuppliedValues] :
       \E opts \in {o \in SUBSET ValueOptions : Cardinality(o) <= MaxValueOptions} :
       \E oval \in [opts -> SuppliedValues] :
       \E dry \in BOOLEAN, nargs \in {1, MaxArgs} :
          options = CommandLine(verbs, vval, opts, oval, dry, nargs)
    /\ pc = "main_args"
    /\ from_dt = NoneDt
    /\ to_dt = NoneDt
    /\ exc = NoExc
    /\ ans = ""
    /\ db = [archive |-> "data", daily |-> TRUE]
    /\ storeLog = <<>>
    /\ output = <<>>
    /\ prompts = <<>>
    /\ table = <<>>
    /\ obs_list = <<>>
    /\ obs_type_list = <<>>
    /\ records = 0
    /\ record = <<>>
    /\ icol = 0
    /\ found = <<>>
    /\ writes = <<>>
    /\ previous = <<>>

\* VerbCount that counts the verbs that are true, as the elif chain does.
VerbCount_truthy(opts) ==
    Cardinality({v \in FlagVerbs : opts[v]})
    + Cardinality({v \in ValueVerbs : Truthy(opts[v])})

\* The number of verbs that are not None.
VerbCount(opts) ==
    Cardinality({v \in FlagVerbs : opts[v]})
    + Cardinality({v \in ValueVerbs : ~opts[v].isNone})

\* The message of the first option rule that is broken, "" when none is.
OptionRuleMessage(opts) ==
    IF Truthy(opts.type) /\ ~Truthy(opts.add_column)
    THEN "Option --type can only be used with option --add-column"
    ELSE IF Truthy(opts.to_name) /\ ~Truthy(opts.rename_column)
    THEN "Option --to-name can only be used with option --rename-column"
    ELSE IF Truthy(opts.rename_column) /\ ~Truthy(opts.to_name)
    THEN "Option --rename-column requires option --to-name"
    ELSE IF Truthy(opts.date)
            /\ ~(opts.calc_missing \/ opts.rebuild_daily \/ opts.reweight)
    THEN "Option --date can only be used with options --calc-missing, --rebuild-daily, or --reweight"
    ELSE IF Truthy(opts.from_date)
            /\ ~(opts.calc_missing \/ opts.rebuild_daily \/ opts.reweight)
    THEN "Option --from can only be used with options --calc-missing, --rebuild-daily, or --reweight"
    ELSE IF Truthy(opts.to_date)
            /\ ~(opts.calc_missing \/ opts.rebuild_daily \/ opts.reweight)
    THEN "Option --to can only be used with options --calc-missing, --rebuild-daily, or --reweight"
    ELSE IF Truthy(opts.dest_binding) /\ ~opts.transfer
    THEN "Option --dest-binding can only be used with option --transfer"
    ELSE ""

\* main: at most one positional argument, else sys.exit(2).
main_args ==
    /\ pc = "main_args"
    /\ IF options.args > 1
       THEN /\ pc' = "exit"
            /\ exc' = SystemExit("2")
            /\ output' = Append(output, "wee_database takes at most a single argument")
       ELSE /\ pc' = "main_verbs"
            /\ UNCHANGED <<exc, output>>
    /\ UNCHANGED <<options, from_dt, to_dt, ans, db, storeLog, prompts, scanVars>>

\* main: exactly one verb, else sys.exit with a message.
main_verbs ==
    /\ pc = "main_verbs"
    /\ IF VerbCount(options) # 1
       THEN /\ pc' = "exit"
            /\ exc' = SystemExit("Must specify one and only one verb.")
       ELSE /\ pc' = "main_options"
            /\ exc' = exc
    /\ UNCHANGED <<options, from_dt, to_dt, ans, db, storeLog, ioVars, scanVars>>

\* main: the rules the options must satisfy, each ending in sys.exit.
main_options ==
    /\ pc = "main_options"
    /\ IF OptionRuleMessage(options) # ""
       THEN /\ pc' = "exit"
            /\ exc' = SystemExit(OptionRuleMessage(options))
       ELSE /\ pc' = "main_config"
            /\ exc' = exc
    /\ UNCHANGED <<options, from_dt, to_dt, ans, db, storeLog, ioVars, scanVars>>

\* main: read the configuration and look the binding up in it; a binding
\* that is not there ends in sys.exit.
main_config ==
    /\ pc = "main_config"
    /\ \E bound \in BOOLEAN :
          IF bound
          THEN /\ pc' = "main"
               /\ exc' = exc
               /\ output' = output \o <<"Using configuration file", "Using database binding">>
          ELSE /\ pc' = "exit"
               /\ exc' = SystemExit("Perhaps you need to specify a different binding using --binding")
               /\ output' = output \o <<"Using configuration file", "Error obtaining database name from binding">>
    /\ UNCHANGED <<options, from_dt, to_dt, ans, db, storeLog, prompts, scanVars>>

NextMain ==
    \/ main_args
    \/ main_verbs
    \/ main_options
    \/ main_config
    \/ main_dispatch

SpecMain == InitMain /\ [][NextMain]_vars

(***************************************************************************)
(* check_strings: stored values, check_type and set_type                   *)
(*                                                                         *)
(* A stored value has a kind (the Python type the driver returns), a form  *)
(* and a number in tenths.  The form of a float tells whether it is        *)
(* finite; the form of a str or bytes value tells what its text spells: an *)
(* integer literal, a float literal, "inf", other text, or (bytes only)    *)
(* bytes that are not UTF-8.                                               *)
(***************************************************************************)
NoneVal == [kind |-> "None", form |-> "", num |-> 0]
IntVal(n) == [kind |-> "int", form |-> "int", num |-> n]
FloatVal(n) == [kind |-> "float", form |-> "finite", num |-> n]
InfVal == [kind |-> "float", form |-> "inf", num |-> 0]
StrVal(f, n) == [kind |-> "str", form |-> f, num |-> n]
BytesVal(f, n) == [kind |-> "bytes", form |-> f, num |-> n]

\* The result of a call: the value returned, or the exception raised.
Value(v) == [exc |-> NoExc, val |-> v]
Raise(e) == [exc |-> e, val |-> NoneVal]

UnicodeDecodeError == [type |-> "ValueError", msg |-> "UnicodeDecodeError"]

\* check_type(val, expected)
check_type_intIsReal(val, expected) ==
    IF expected = "INTEGER" THEN [exc |-> NoExc, ok |-> (val.kind = "int")]
    ELSE IF expected = "REAL" THEN [exc |-> NoExc, ok |-> (val.kind \in {"int", "float"})]
    ELSE IF expected = "STR" \/ expected = "TEXT"
    THEN [exc |-> NoExc, ok |-> (val.kind = "str")]
    ELSE [exc |-> ValueError("Unknown type"), ok |-> FALSE]

check_type(val, expected) ==
    IF expected = "INTEGER" THEN [exc |-> NoExc, ok |-> (val.kind = "int")]
    ELSE IF expected = "REAL" THEN [exc |-> NoExc, ok |-> (val.kind = "float")]
    ELSE IF expected = "STR" \/ expected = "TEXT"
    THEN [exc |-> NoExc, ok |-> (val.kind = "str")]
    ELSE [exc |-> ValueError("Unknown type"), ok |-> FALSE]

\* int(val): a float is truncated, the text of an integer literal is read,
\* infinity is an OverflowError, anything else a ValueError.
PyInt(val) ==
    IF val.kind = "int" THEN Value(val)
    ELSE IF val.kind = "float"
    THEN IF val.form = "finite" THEN Value(IntVal(val.num - (val.num % 10)))
         ELSE IF val.form = "inf" THEN Raise(OverflowError)
         ELSE Raise(ValueError("cannot convert float NaN to integer"))
    ELSE IF val.form = "int" THEN Value(IntVal(val.num))
    ELSE Raise(ValueError("invalid literal for int()"))

\* float(val): the text of an integer or float literal or of "inf" is read,
\* anything else is a ValueError.
PyFloat_keepsInt(val) ==
    IF val.kind \in {"float", "int"} THEN Value(val)
    ELSE IF val.form \in {"int", "float"} THEN Value(FloatVal(val.num))
    ELSE IF val.form = "inf" THEN Value(InfVal)
    ELSE Raise(ValueError("could not convert string to float"))

PyFloat(val) ==
    IF val.kind = "float" THEN Value(val)
    ELSE IF val.kind = "int" THEN Value(FloatVal(val.num))
    ELSE IF val.form \in {"int", "float"} THEN Value(FloatVal(val.num))
    ELSE IF val.form = "inf" THEN Value(InfVal)
    ELSE Raise(ValueError("could not convert string to float"))

\* str(val) of a value that is not bytes.
PyStr(val) ==
    IF val.kind = "str" THEN Value(val)
    ELSE IF val.kind = "int" THEN Value(StrVal("int", val.num))
    ELSE IF val.form = "finite" THEN Value(StrVal("float", val.num))
    ELSE Value(StrVal("inf", 0))

\* val.decode('utf-8')
Decode(val) ==
    IF val.form = "invalid" THEN Raise(UnicodeDecodeError)
    ELSE Value(StrVal(val.form, val.num))

\* set_type(val, target)
set_type(val, target) ==
    IF target = "INTEGER" THEN PyInt(val)
    ELSE IF target = "REAL" THEN PyFloat(val)
    ELSE IF target = "STR" \/ target = "TEXT"
    THEN IF val.kind = "bytes" THEN Decode(val) ELSE PyStr(val)
    ELSE Raise(ValueError("Unknown type"))

(***************************************************************************)
(* check_strings: the scan of the archive table                            *)
(***************************************************************************)
\* The most records in the archive table and the most runs of the program
\* one after the other on the same table.
MaxRecords == 2
MaxRuns == 2

\* The values tried in the data column: None, 72, 72.3, infinity, the texts
\* "72", "72.3" and "abc", the bytes b"abc" and bytes that are not UTF-8.
StoredValues ==
    {NoneVal, IntVal(720), FloatVal(723), InfVal,
     StrVal("int", 720), StrVal("float", 723), StrVal("text", 0),
     BytesVal("text", 0), BytesVal("invalid", 0)}

\* The declared types tried for the data column; BLOB is a type check_type
\* does not know.
DeclaredTypes == {"INTEGER", "REAL", "STR", "TEXT", "BLOB"}

\* The time key of the i-th record; dateTime is the INTEGER primary key.
TimeKey(i) == IntVal(i * 10000)

\* The archive tables tried: up to MaxRecords records in ascending order of
\* dateTime, each with one data column.
Tables ==
    UNION {{[i \in 1..n |-> <<TimeKey(i), vals[i]>>] : vals \in [1..n -> StoredValues]} :
              n \in 0..MaxRecords}

\* The schema genSchemaOf('archive') delivers.
ArchiveSchema(t) ==
    <<[name |-> "dateTime", type |-> "INTEGER"], [name |-> "outTemp", type |-> t]>>

StringsOptions(fix, dry) ==
    [NoOptions EXCEPT !.check_strings = ~fix, !.fix_strings = fix, !.dry_run = dry]

InitStrings ==
    /\ \E fix \in BOOLEAN, dry \in BOOLEAN : options = StringsOptions(fix, dry)
    /\ pc = "main"
    /\ from_dt = NoneDt
    /\ to_dt = NoneDt
    /\ exc = NoExc
    /\ ans = ""
    /\ table \in Tables
    /\ \E t \in DeclaredTypes :
          db = [archive |-> IF table = <<>> THEN "empty" ELSE "data",
                daily |-> TRUE, schema |-> ArchiveSchema(t)]
    /\ storeLog = <<>>
    /\ output = <<>>
    /\ prompts = <<>>
    /\ obs_list = <<>>
    /\ obs_type_list = <<>>
    /\ records = 0
    /\ record = <<>>
    /\ icol = 0
    /\ found = <<>>
    /\ writes = <<>>
    /\ previous = <<>>

\* The fix argument main passes: True from the --fix-strings branch only.
fix ==
    options.fix_strings /\ ~options.check /\ ~options.check_strings

\* dbmanager.updateValue(timestamp, obs_type, new_value) on the table.
updateValue_anyRow(tbl, ts, col, v) ==
    [i \in DOMAIN tbl |-> [tbl[i] EXCEPT ![col] = v]]

updateValue(tbl, ts, col, v) ==
    [i \in DOMAIN tbl |-> IF tbl[i][1] = ts THEN [tbl[i] EXCEPT ![col] = v] ELSE tbl[i]]

\* corrected_value: set_type, with a ValueError turned into None; any other
\* exception is passed on.
corrected_value(val, target) ==
    LET r == set_type(val, target)
    IN IF r.exc.type = "ValueError" THEN Value(NoneVal) ELSE r

\* An entry of _found; len is the length of the tuple (4 with a replacement,
\* 3 without).
Found4_noneIsUnfixed(ts, obs, val, corrected) ==
    [ts |-> ts, obs |-> obs, value |-> val, corrected |-> corrected,
     len |-> IF corrected = NoneVal THEN 3 ELSE 4]

Found4(ts, obs, val, corrected) ==
    [ts |-> ts, obs |-> obs, value |-> val, corrected |-> corrected, len |-> 4]
Found3(ts, obs, val) ==
    [ts |-> ts, obs |-> obs, value |-> val, corrected |-> NoneVal, len |-> 3]

\* The run now started, as remembered for later runs on the same table.
RunStarted == [options |-> options, table |-> table, found |-> <<>>,
               writes |-> <<>>, outcome |-> ""]

\* check_strings: open the database and read the schema of the archive.
check_strings_open ==
    /\ pc = "check_strings"
    /\ IF ManagerWithConfigOpens
       THEN /\ storeLog' = storeLog \o <<"open", "genSchemaOf">>
            /\ obs_list' = [i \in DOMAIN db.schema |-> db.schema[i].name]
            /\ obs_type_list' = [i \in DOMAIN db.schema |-> db.schema[i].type]
            /\ pc' = "check_strings_rows"
            /\ exc' = exc
       ELSE /\ storeLog' = Append(storeLog, "open failed")
            /\ UNCHANGED <<obs_list, obs_type_list>>
            /\ pc' = "raised"
            /\ exc' = OperationalError
    /\ records' = 0
    /\ record' = <<>>
    /\ icol' = 0
    /\ found' = <<>>
    /\ writes' = <<>>
    /\ previous' = Append(previous, RunStarted)
    /\ output' = output \o <<"Preparing Null String Fix, this may take a while...">>
                        \o (IF fix /\ options.dry_run
                            THEN <<"This is a dry run: null strings will be detected but not fixed">>
                            ELSE <<>>)
    /\ UNCHANGED <<options, from_dt, to_dt, ans, db, prompts, table>>

\* check_strings: for record in dbmanager.genBatchRows(): records += 1; the
\* end of the rows closes the database.
check_strings_fetch ==
    /\ pc = "check_strings_rows"
    /\ icol = 0
    /\ IF records < Len(table)
       THEN /\ record' = table[records + 1]
            /\ records' = records + 1
            /\ icol' = 1
            /\ storeLog' = Append(storeLog, "genBatchRows")
            /\ pc' = pc
       ELSE /\ UNCHANGED <<record, records, icol>>
            /\ storeLog' = Append(storeLog, "close")
            /\ pc' = "check_strings_report"
    /\ UNCHANGED <<options, from_dt, to_dt, exc, ans, db, ioVars, table, obs_list,
                   obs_type_list, found, writes, previous>>

\* The column after icol in the record, 0 when the record is finished.
NextColumn == IF icol = Len(record) THEN 0 ELSE icol + 1

\* if not options.dry_run: the corrected value is written back.
WritesBack_always == TRUE

WritesBack == ~options.dry_run

\* updateValue fails: the exception leaves the with block and check_strings;
\* what was written before stays written.
updateValueRaises_rollback ==
    /\ pc' = "raised"
    /\ exc' = OperationalError
    /\ storeLog' = storeLog \o <<"updateValue failed", "close">>
    /\ table' = previous[Len(previous)].table
    /\ UNCHANGED <<found, writes, icol>>

updateValueRaises ==
    /\ pc' = "raised"
    /\ exc' = OperationalError
    /\ storeLog' = storeLog \o <<"updateValue failed", "close">>
    /\ UNCHANGED <<table, found, writes, icol>>

\* An exception leaves the with block, which closes the database.
check_strings_raise(e) ==
    /\ pc' = "raised"
    /\ exc' = e
    /\ storeLog' = Append(storeLog, "close")
    /\ UNCHANGED <<table, found, writes, icol>>

\* check_strings: examine column icol of the record; a value that is not
\* None and not of the declared type is recorded and, when fixing, replaced.
check_strings_cell ==
    /\ pc = "check_strings_rows"
    /\ icol >= 1
    /\ LET val == record[icol]
           expected == obs_type_list[icol]
           checked == check_type(val, expected)
           coerced == corrected_value(val, expected)
       IN IF val = NoneVal
          THEN /\ icol' = NextColumn
               /\ UNCHANGED <<pc, exc, storeLog, table, found, writes>>
          ELSE IF checked.exc # NoExc
          THEN check_strings_raise(checked.exc)
          ELSE IF checked.ok
          THEN /\ icol' = NextColumn
               /\ UNCHANGED <<pc, exc, storeLog, table, found, writes>>
          ELSE IF ~fix
          THEN /\ found' = Append(found, Found3(record[1], obs_list[icol], val))
               /\ icol' = NextColumn
               /\ UNCHANGED <<pc, exc, storeLog, table, writes>>
          ELSE IF coerced.exc # NoExc
          THEN check_strings_raise(coerced.exc)
          ELSE IF ~WritesBack
          THEN /\ found' = Append(found, Found4(record[1], obs_list[icol], val, coerced.val))
               /\ icol' = NextColumn
               /\ UNCHANGED <<pc, exc, storeLog, table, writes>>
          ELSE \/ /\ table' = updateValue(table, record[1], icol, coerced.val)
                  /\ writes' = Append(writes, [ts |-> record[1], obs |-> obs_list[icol],
                                               value |-> coerced.val])
                  /\ storeLog' = Append(storeLog, "updateValue")
                  /\ found' = Append(found, Found4(record[1], obs_list[icol], val, coerced.val))
                  /\ icol' = NextColumn
                  /\ UNCHANGED <<pc, exc>>
               \/ updateValueRaises
    /\ UNCHANGED <<options, from_dt, to_dt, ans, db, ioVars, obs_list, obs_type_list,
                   records, record, previous>>

\* fixed = len([a for a in _found if len(a) == 4])
fixed == Cardinality({i \in 1..Len(found) : found[i].len = 4})

\* The summary check_strings prints at the end.
Summary ==
    IF Len(found) = 0 THEN "No null strings found."
    ELSE IF fixed = Len(found)
    THEN IF options.dry_run
         THEN "%d of %d null strings found would have been fixed."
         ELSE "%d of %d null strings found were fixed."
    ELSE IF fix
    THEN IF options.dry_run
         THEN "Could not fix all null strings. %d of %d null strings found would have been fixed."
         ELSE "Could not fix all null strings. %d of %d null strings found were fixed."
    ELSE "%d null strings were found. Recommend running --fix-strings to fix these strings."

\* check_strings: print what was found and the summary.
check_strings_report ==
    /\ pc = "check_strings_report"
    /\ output' = output
                    \o (IF records # 0 THEN <<"Checking record: %d; Timestamp: %s">>
                        ELSE <<"No records in database.">>)
                    \o (IF Len(found) # 0 THEN <<"The following null strings were found:">>
                        ELSE <<>>)
                    \o <<Summary>>
                    \o (IF fix THEN <<"Applied Null String Fix in %0.2f seconds.">>
                        ELSE <<"Completed Null String Check in %0.2f seconds.">>)
    /\ previous' = [previous EXCEPT ![Len(previous)] =
                       [@ EXCEPT !.found = found, !.writes = writes, !.outcome = Summary]]
    /\ pc' = "done"
    /\ UNCHANGED <<options, from_dt, to_dt, exc, ans, db, storeLog, prompts, table,
                   obs_list, obs_type_list, records, record, icol, found, writes>>

\* The operator runs the program again on the table as it now is.
run_again ==
    /\ pc \in {"done", "raised"}
    /\ Len(previous) < MaxRuns
    /\ \E f \in BOOLEAN, dry \in BOOLEAN : options' = StringsOptions(f, dry)
    /\ pc' = "main"
    /\ exc' = NoExc
    /\ output' = <<>>
    /\ storeLog' = <<>>
    /\ UNCHANGED <<from_dt, to_dt, ans, db, prompts, scanVars>>

NextStrings ==
    \/ main_dispatch
    \/ check_strings_open
    \/ check_strings_fetch
    \/ check_strings_cell
    \/ check_strings_report
    \/ run_again

SpecStrings == InitStrings /\ [][NextStrings]_vars

(***************************************************************************)
(* The routines that ask before they change a database                     *)
(***************************************************************************)
\* The stores of a run: the bound database (its archive table, its daily
\* summary tables and their version, and whether it has the column named on
\* the command line and the one named by --to-name), the database named
\* <database_name>_new and the database of the destination binding.
GateStores ==
    [archive : {"missing", "empty", "data"}, daily : BOOLEAN,
     columns : SUBSET {"named"}, new_db : {"missing", "data"},
     dest : {"unknown", "missing", "data"}, version : {"3.0", "4.0"}]

\* The command lines of the verbs that ask for confirmation.
GateCommands ==
    {[NoOptions EXCEPT !.drop_daily = TRUE], [NoOptions EXCEPT !.reconfigure = TRUE],
     [NoOptions EXCEPT !.update = TRUE],
     [NoOptions EXCEPT !.rename_column = Str(<<JunkTok>>), !.to_name = Str(<<JunkTok>>)],
     [NoOptions EXCEPT !.drop_columns = Str(<<JunkTok>>)]}
    \cup {[NoOptions EXCEPT !.transfer = TRUE, !.dest_binding = b] :
             b \in {NoneStr, Str(<<JunkTok>>)}}
    \cup {[NoOptions EXCEPT !.add_column = Str(<<JunkTok>>), !.type = t] :
             t \in {NoneStr, Str(<<JunkTok>>)}}

InitGate ==
    /\ \E cmd \in GateCommands, dry \in BOOLEAN : options = [cmd EXCEPT !.dry_run = dry]
    /\ pc = "main"
    /\ from_dt = NoneDt
    /\ to_dt = NoneDt
    /\ exc = NoExc
    /\ ans = ""
    /\ db \in {s \in GateStores : s.archive = "missing" => ~s.daily /\ s.columns = {}}
    /\ storeLog = <<>>
    /\ output = <<>>
    /\ prompts = <<>>
    /\ table = <<>>
    /\ obs_list = <<>>
    /\ obs_type_list = <<>>
    /\ records = 0
    /\ record = <<>>
    /\ icol = 0
    /\ found = <<>>
    /\ writes = <<>>
    /\ previous = <<>>

\* ans = y_or_n(question): the operator answers; 'y' goes on to the step
\* yes, anything else prints "Nothing done." and ends the routine.
y_or_n(question, yes) ==
    \E a \in {"y", "n"} :
       /\ ans' = a
       /\ prompts' = Append(prompts, [q |-> question, a |-> a])
       /\ pc' = IF a = "y" THEN yes ELSE "done"
       /\ output' = IF a = "y" THEN output ELSE Append(output, "Nothing done.")

\* dropDaily: say what will happen and ask.
dropDaily_prompt ==
    /\ pc = "dropDaily"
    /\ \E a \in {"y", "n"} :
          /\ ans' = a
          /\ prompts' = Append(prompts, [q |-> "Are you sure you want to proceed (y/n)? ",
                                         a |-> a])
          /\ pc' = IF a = "y" THEN "dropDaily_drop" ELSE "done"
          /\ output' = output
                \o <<"Proceeding will delete all your daily summaries from database '%s'">>
                \o (IF a = "y" THEN <<"Dropping daily summary tables from '%s' ... ">>
                    ELSE <<"Nothing done.">>)
    /\ UNCHANGED <<options, from_dt, to_dt, exc, db, storeLog, scanVars>>

\* dropDaily: open the database and drop the daily summaries unless this is
\* a dry run; a database without daily summaries does not open.
dropDaily_drop ==
    /\ pc = "dropDaily_drop"
    /\ IF ~ManagerWithConfigOpens
       THEN /\ storeLog' = Append(storeLog, "open failed")
            /\ output' = Append(output, "No daily summaries found in database '%s'. Nothing done.")
            /\ db' = db
       ELSE IF options.dry_run
       THEN /\ storeLog' = storeLog \o <<"open", "close">>
            /\ output' = Append(output, "Daily summary tables dropped from database '%s' in %.2f seconds")
            /\ db' = db
       ELSE \/ /\ storeLog' = storeLog \o <<"open", "drop_daily", "close">>
               /\ output' = Append(output, "Daily summary tables dropped from database '%s' in %.2f seconds")
               /\ db' = [db EXCEPT !.daily = FALSE]
            \/ /\ storeLog' = storeLog \o <<"open", "drop_daily failed", "close">>
               /\ output' = Append(output, "Drop daily summary tables failed for database '%s'")
               /\ db' = db
    /\ pc' = "done"
    /\ UNCHANGED <<options, from_dt, to_dt, exc, ans, prompts, scanVars>>

\* addColumn, renameColumn, dropColumns: ask.
addColumn_prompt ==
    /\ pc = "addColumn"
    /\ y_or_n("Add new column '%s' of type '%s' to database (y/n)? ", "addColumn_add")
    /\ UNCHANGED <<options, from_dt, to_dt, exc, db, storeLog, scanVars>>

renameColumn_prompt ==
    /\ pc = "renameColumn"
    /\ y_or_n("Rename column '%s' to '%s' (y/n)? ", "renameColumn_rename")
    /\ UNCHANGED <<options, from_dt, to_dt, exc, db, storeLog, scanVars>>

dropColumns_prompt ==
    /\ pc = "dropColumns"
    /\ y_or_n("Drop column(s) '%s' from the database (y/n)? ", "dropColumns_drop")
    /\ UNCHANGED <<options, from_dt, to_dt, exc, db, storeLog, scanVars>>

\* The routine ends with an exception nobody catches.
Uncaught(e, log) ==
    /\ pc' = "raised"
    /\ exc' = e
    /\ storeLog' = storeLog \o log
    /\ UNCHANGED <<db, output>>

\* addColumn: open the database and add the column unless this is a dry run.
addColumn_add ==
    /\ pc = "addColumn_add"
    /\ IF ~ManagerWithConfigOpens
       THEN Uncaught(OperationalError, <<"open failed">>)
       ELSE IF ~options.dry_run /\ "named" \in db.columns
       THEN Uncaught(OperationalError, <<"open", "add_column failed">>)
       ELSE /\ db' = IF options.dry_run THEN db
                     ELSE [db EXCEPT !.columns = @ \cup {"named"}]
            /\ storeLog' = storeLog \o <<"open">>
                           \o (IF options.dry_run THEN <<>> ELSE <<"add_column">>)
            /\ output' = Append(output, "New column %s of type %s added to database.")
            /\ pc' = "done"
            /\ exc' = exc
    /\ UNCHANGED <<options, from_dt, to_dt, ans, prompts, scanVars>>

\* renameColumn: open the database and rename the column unless this is a
\* dry run.
renameColumn_rename ==
    /\ pc = "renameColumn_rename"
    /\ IF ~ManagerWithConfigOpens
       THEN Uncaught(OperationalError, <<"open failed">>)
       ELSE IF ~options.dry_run /\ "named" \notin db.columns
       THEN Uncaught(OperationalError, <<"open", "rename_column failed">>)
       ELSE /\ db' = IF options.dry_run THEN db
                     ELSE [db EXCEPT !.columns = (@ \ {"named"}) \cup {"to_name"}]
            /\ storeLog' = storeLog \o <<"open">>
                           \o (IF options.dry_run THEN <<>> ELSE <<"rename_column">>)
            /\ output' = Append(output, "Column '%s' renamed to '%s'.")
            /\ pc' = "done"
            /\ exc' = exc
    /\ UNCHANGED <<options, from_dt, to_dt, ans, prompts, scanVars>>

\* dropColumns: open the database and drop the columns unless this is a dry
\* run; a missing column is reported and nothing is dropped.
dropColumns_drop ==
    /\ pc = "dropColumns_drop"
    /\ IF ~ManagerWithConfigOpens
       THEN Uncaught(OperationalError, <<"open failed">>)
       ELSE /\ pc' = "done"
            /\ exc' = exc
            /\ IF options.dry_run
               THEN /\ db' = db
                    /\ storeLog' = Append(storeLog, "open")
                    /\ output' = output \o <<"This may take a while...",
                                             "Column(s) '%s' dropped from the database">>
               ELSE IF "named" \notin db.columns
               THEN /\ db' = db
                    /\ storeLog' = storeLog \o <<"open", "drop_columns failed">>
                    /\ output' = output \o <<"This may take a while...", "Nothing done.">>
               ELSE /\ db' = [db EXCEPT !.columns = @ \ {"named"}]
                    /\ storeLog' = storeLog \o <<"open", "drop_columns">>
                    /\ output' = output \o <<"This may take a while...",
                                             "Column(s) '%s' dropped from the database">>
    /\ UNCHANGED <<options, from_dt, to_dt, ans, prompts, scanVars>>

\* num_recs: the result of SELECT COUNT(dateTime) on the source.
num_recs_nonzero == IF db.archive = "missing" THEN 0 ELSE 1

num_recs == IF db.archive = "data" THEN 1 ELSE 0

\* transferDatabase: find the two bindings, open the source and count its
\* records; a dry run only says what would be transferred.
transferDatabase_source ==
    /\ pc = "transferDatabase"
    /\ IF ~Truthy(options.dest_binding)
       THEN /\ output' = Append(output, "Destination binding not specified. Nothing Done. Aborting.")
            /\ pc' = "done"
            /\ UNCHANGED <<exc, storeLog>>
       ELSE IF db.dest = "unknown"
       THEN /\ output' = output \o <<"Unknown destination binding '%s', confirm destination binding.",
                                     "Nothing Done. Aborting.">>
            /\ pc' = "done"
            /\ UNCHANGED <<exc, storeLog>>
       ELSE IF ~ManagerOpens
       THEN /\ pc' = "raised"
            /\ exc' = OperationalError
            /\ storeLog' = Append(storeLog, "open failed")
            /\ output' = output
       ELSE IF num_recs = 0
       THEN /\ output' = output \o <<"No records found in source database '%s'.",
                                     "Nothing done. Aborting.">>
            /\ pc' = "done"
            /\ exc' = exc
            /\ storeLog' = storeLog \o <<"open", "getSql", "close">>
       ELSE IF options.dry_run
       THEN /\ output' = Append(output, "Transfer %s records from source database '%s' to destination database '%s'.")
            /\ pc' = "done"
            /\ exc' = exc
            /\ storeLog' = storeLog \o <<"open", "getSql", "close">>
       ELSE /\ output' = output
            /\ pc' = "transferDatabase_prompt"
            /\ exc' = exc
            /\ storeLog' = storeLog \o <<"open", "getSql">>
    /\ UNCHANGED <<options, from_dt, to_dt, ans, db, prompts, scanVars>>

\* transferDatabase: ask.
transferDatabase_prompt ==
    /\ pc = "transferDatabase_prompt"
    /\ \E a \in {"y", "n"} :
          /\ ans' = a
          /\ prompts' = Append(prompts,
                [q |-> "Transfer %s records from source database '%s' to destination database '%s' (y/n)? ",
                 a |-> a])
          /\ pc' = IF a = "y" THEN "transferDatabase_transfer" ELSE "done"
          /\ output' = IF a = "y" THEN output ELSE Append(output, "Nothing done.")
          /\ storeLog' = IF a = "y" THEN storeLog ELSE Append(storeLog, "close")
    /\ UNCHANGED <<options, from_dt, to_dt, exc, db, scanVars>>

\* transferDatabase: open the destination, creating it when it does not
\* exist, and add the records of the source; a destination that cannot be
\* opened is reported.
transferDatabase_transfer ==
    /\ pc = "transferDatabase_transfer"
    /\ \/ /\ db' = [db EXCEPT !.dest = "data"]
          /\ storeLog' = storeLog \o <<"open_with_create", "addRecord", "close", "close">>
          /\ output' = output \o <<"Transferring, this may take a while.... ", "Completed.",
                                   "%s records transferred from source database '%s' to destination database '%s' in %.2f seconds.">>
       \/ /\ db' = db
          /\ storeLog' = storeLog \o <<"open_with_create failed", "close">>
          /\ output' = output \o <<"Error accessing destination database '%s'.",
                                   "Maybe it does not exist (MySQL) or is incorrectly defined in weewx.conf?",
                                   "Nothing done. Aborting.">>
    /\ pc' = "done"
    /\ UNCHANGED <<options, from_dt, to_dt, exc, ans, prompts, scanVars>>

\* reconfigMainDatabase: unless this is a dry run, create the database
\* <database_name>_new; when it exists already, ask whether to delete it.
reconfigMainDatabase_create ==
    /\ pc = "reconfigMainDatabase"
    /\ IF options.dry_run
       THEN /\ pc' = "reconfigMainDatabase_old"
            /\ UNCHANGED <<db, storeLog>>
       ELSE IF db.new_db = "missing"
       THEN /\ db' = [db EXCEPT !.new_db = "empty"]
            /\ storeLog' = Append(storeLog, "create")
            /\ pc' = "reconfigMainDatabase_old"
       ELSE /\ storeLog' = Append(storeLog, "create failed")
            /\ db' = db
            /\ pc' = "reconfigMainDatabase_exists"
    /\ UNCHANGED <<options, from_dt, to_dt, exc, ans, ioVars, scanVars>>

\* reconfigMainDatabase: the new database exists; delete it on 'y'.
reconfigMainDatabase_exists ==
    /\ pc = "reconfigMainDatabase_exists"
    /\ \E a \in {"y", "n"} :
          /\ ans' = a
          /\ prompts' = Append(prompts,
                [q |-> "New database '%s' already exists. Delete it first (y/n)? ", a |-> a])
          /\ IF a = "y"
             THEN /\ db' = [db EXCEPT !.new_db = "missing"]
                  /\ storeLog' = Append(storeLog, "drop")
                  /\ pc' = "reconfigMainDatabase_old"
                  /\ output' = output
             ELSE /\ UNCHANGED <<db, storeLog>>
                  /\ pc' = "done"
                  /\ output' = Append(output, "Nothing done.")
    /\ UNCHANGED <<options, from_dt, to_dt, exc, scanVars>>

\* reconfigMainDatabase: read the unit system of the old database; a
\* database without records has none.
reconfigMainDatabase_old ==
    /\ pc = "reconfigMainDatabase_old"
    /\ IF ~ManagerOpens
       THEN /\ pc' = "raised"
            /\ exc' = OperationalError
            /\ storeLog' = Append(storeLog, "open failed")
            /\ output' = output
       ELSE /\ exc' = exc
            /\ storeLog' = storeLog \o <<"open", "close">>
            /\ IF db.archive = "empty"
               THEN /\ pc' = "done"
                    /\ output' = Append(output, "Old database has not been initialized. Nothing to be done.")
               ELSE /\ pc' = "reconfigMainDatabase_prompt"
                    /\ output' = output \o <<"Copying database '%s' to '%s'",
                                             "The new database will use the same unit system as the old ('%s').">>
    /\ UNCHANGED <<options, from_dt, to_dt, ans, db, prompts, scanVars>>

\* reconfigMainDatabase: ask.
reconfigMainDatabase_prompt ==
    /\ pc = "reconfigMainDatabase_prompt"
    /\ y_or_n("Are you sure you wish to proceed (y/n)? ", "reconfigMainDatabase_reconfig")
    /\ UNCHANGED <<options, from_dt, to_dt, exc, db, storeLog, scanVars>>

\* reconfigMainDatabase: weewx.manager.reconfig copies the old database into
\* the new one unless this is a dry run.
reconfigMainDatabase_reconfig ==
    /\ pc = "reconfigMainDatabase_reconfig"
    /\ db' = IF options.dry_run THEN db ELSE [db EXCEPT !.new_db = "data"]
    /\ storeLog' = Append(storeLog, IF options.dry_run THEN "reconfig dry_run" ELSE "reconfig")
    /\ output' = Append(output, "Database '%s' copied to '%s' in %.2f seconds.")
    /\ pc' = "done"
    /\ UNCHANGED <<options, from_dt, to_dt, exc, ans, prompts, scanVars>>

\* The most answers the operator types at the prompt of update.
MaxAnswers == 2

\* What the operator may type at a prompt: y or n in either case, or
\* something else (here just Enter).
Answers == {"y", "n", "Y", "N", ""}

\* update: ans = 'y' in a dry run; otherwise input() is asked until the
\* answer is 'y' or 'n'; 'n' cancels.
update_prompt ==
    /\ pc = "update"
    /\ IF options.dry_run
       THEN /\ ans' = "y"
            /\ pc' = "update_weights"
            /\ output' = Append(output, "Preparing interval weighting fix...")
            /\ prompts' = prompts
       ELSE \E a \in (IF Len(prompts) + 1 < MaxAnswers THEN Answers ELSE {"y", "n"}) :
               /\ ans' = a
               /\ prompts' = Append(prompts,
                     [q |-> "The update process does not affect archive data, but does alter the database. Continue (y/n)? ",
                      a |-> a])
               /\ pc' = IF a = "y" THEN "update_weights"
                        ELSE IF a = "n" THEN "done"
                        ELSE "update"
               /\ output' = IF a = "y" THEN Append(output, "Preparing interval weighting fix...")
                            ELSE IF a = "n" THEN Append(output, "Update cancelled")
                            ELSE output
    /\ UNCHANGED <<options, from_dt, to_dt, exc, db, storeLog, scanVars>>

\* update: open the database and, when the daily summaries are older than
\* version 4.0, recalculate the interval weights unless this is a dry run.
update_weights ==
    /\ pc = "update_weights"
    /\ IF ~ManagerWithConfigOpens
       THEN Uncaught(OperationalError, <<"open failed">>)
       ELSE /\ pc' = "_fix_wind"
            /\ exc' = exc
            /\ IF db.version = "4.0"
               THEN /\ db' = db
                    /\ storeLog' = Append(storeLog, "open")
                    /\ output' = output \o <<"Daily summary tables are at version %s",
                                             "Interval weighting fix is not required.">>
               ELSE /\ db' = IF options.dry_run THEN db ELSE [db EXCEPT !.version = "4.0"]
                    /\ storeLog' = storeLog \o <<"open">>
                                   \o (IF options.dry_run THEN <<>> ELSE <<"update">>)
                    /\ output' = output \o <<"Daily summary tables are at version %s",
                                             "Calculating interval weights...",
                                             "Interval Weighting Fix completed in %0.2f seconds.">>
    /\ UNCHANGED <<options, from_dt, to_dt, ans, prompts, scanVars>>

\* _fix_wind: run the recalculation of the maximum windSpeed, which is told
\* whether this is a dry run; a database without windSpeed is reported.
_fix_wind ==
    /\ pc = "_fix_wind"
    /\ storeLog' = Append(storeLog, IF options.dry_run THEN "WindSpeedRecalculation.run dry_run"
                                    ELSE "WindSpeedRecalculation.run")
    /\ \E hasWind \in BOOLEAN :
          output' = output
             \o <<"Preparing maximum windSpeed fix...">>
             \o (IF options.dry_run
                 THEN <<"This is a dry run: maximum windSpeed will be calculated but not saved.">>
                 ELSE <<>>)
             \o (IF hasWind THEN <<"Maximum windSpeed fix completed in %0.2f seconds">>
                 ELSE <<"Maximum windSpeed fix applied: no windSpeed found">>)
    /\ pc' = "done"
    /\ UNCHANGED <<options, from_dt, to_dt, exc, ans, db, prompts, scanVars>>

NextGate ==
    \/ main_dispatch
    \/ update_prompt
    \/ update_weights
    \/ _fix_wind
    \/ dropDaily_prompt
    \/ dropDaily_drop
    \/ addColumn_prompt
    \/ addColumn_add
    \/ renameColumn_prompt
    \/ renameColumn_rename
    \/ dropColumns_prompt
    \/ dropColumns_drop
    \/ transferDatabase_source
    \/ transferDatabase_prompt
    \/ transferDatabase_transfer
    \/ reconfigMainDatabase_create
    \/ reconfigMainDatabase_exists
    \/ reconfigMainDatabase_old
    \/ reconfigMainDatabase_prompt
    \/ reconfigMainDatabase_reconfig

SpecGate == InitGate /\ [][NextGate]_vars

(***************************************************************************)
(* Vocabulary of the properties of _parse_dates                            *)
(***************************************************************************)
\* o is a string "YYYY-mm-dd" that names a day.
IsDateOnly(o) ==
    ~o.isNone /\ Len(o.str) = 1 /\ o.str[1].k = "date" /\ o.str[1].v \in 1..MaxDay

\* o is a string "YYYY-mm-ddTHH:MM" that names an instant.
IsDateTime(o) ==
    /\ ~o.isNone /\ Len(o.str) = 3
    /\ o.str[1].k = "date" /\ o.str[1].v \in 1..MaxDay
    /\ o.str[2].k = "T"
    /\ o.str[3].k = "time" /\ o.str[3].v \in 0..(MinutesPerDay - 1)

\* Midnight at the start of the day a date or date-time string names.
Midnight(o) == Datetime(o.str[1].v, 0)

\* The instant a date-time string names.
Instant(o) == Datetime(o.str[1].v, o.str[3].v * SecondsPerMinute)

\* The call of _parse_dates has finished, by return or by exception.
ParseFinished == pc \in {"returned", "raised"}

RebuildConsumer == options.rebuild_daily \/ options.reweight
CalcMissingConsumer ==
    options.calc_missing /\ ~options.rebuild_daily /\ ~options.reweight

(***************************************************************************)
(* Properties of _parse_dates (specification SpecParse)                    *)
(***************************************************************************)
\* C1: for every valid --date D, with rebuild-daily or reweight selected and
\* neither --from nor --to given, _parse_dates returns start = end = midnight
\* at the start of day D.
C1_DateRebuildCollapses ==
    (/\ ParseFinished
     /\ IsDateOnly(options.date)
     /\ RebuildConsumer
     /\ options.from_date.isNone /\ options.to_date.isNone)
    => /\ pc = "returned"
       /\ from_dt = Midnight(options.date)
       /\ to_dt = Midnight(options.date)

C1_Witness ==
    /\ pc = "returned"
    /\ IsDateOnly(options.date)
    /\ options.reweight /\ ~options.rebuild_daily
    /\ options.from_date.isNone /\ options.to_date.isNone
    /\ from_dt = Midnight(options.date) /\ to_dt = from_dt

\* C2: for every valid --date D, with calc-missing the consumer (neither
\* rebuild-daily nor reweight selected, no --from, no --to), _parse_dates
\* returns start = midnight(D) + 1 second and end = midnight(D) + 1 day.
C2_DateCalcMissingWindow ==
    (/\ ParseFinished
     /\ IsDateOnly(options.date)
     /\ CalcMissingConsumer
     /\ options.from_date.isNone /\ options.to_date.isNone)
    => /\ pc = "returned"
       /\ from_dt = Datetime(options.date.str[1].v, 1)
       /\ to_dt = Datetime(options.date.str[1].v + 1, 0)

\* C3: whenever resolution succeeds with a date-only --to and calc-missing the
\* consumer, the end is midnight at the start of the named day plus one day,
\* whatever --from is.
C3_ToCalcMissingExpands ==
    (/\ pc = "returned"
     /\ IsDateOnly(options.to_date)
     /\ CalcMissingConsumer)
    => to_dt = Datetime(options.to_date.str[1].v + 1, 0)

C3_Witness ==
    /\ pc = "returned"
    /\ IsDateOnly(options.to_date)
    /\ CalcMissingConsumer
    /\ IsDateTime(options.from_date)
    /\ to_dt = Datetime(options.to_date.str[1].v + 1, 0)

\* C4: whenever resolution succeeds with a date-only --to and rebuild-daily or
\* reweight selected, the end is midnight at the start of the named day, not
\* moved to the next day; --from=day 1 --to=day MaxDay gives midnight of day 1
\* and midnight of day MaxDay.
C4_ToRebuildNotExpanded ==
    /\ (/\ pc = "returned"
        /\ IsDateOnly(options.to_date)
        /\ RebuildConsumer)
       => to_dt = Midnight(options.to_date)
    /\ (/\ ParseFinished
        /\ ~Truthy(options.date)
        /\ options.from_date = Str(<<DayTok(1)>>)
        /\ options.to_date = Str(<<DayTok(MaxDay)>>)
        /\ RebuildConsumer)
       => /\ pc = "returned"
          /\ from_dt = Datetime(1, 0)
          /\ to_dt = Datetime(MaxDay, 0)

C4_Witness ==
    /\ pc = "returned"
    /\ options.from_date = Str(<<DayTok(1)>>)
    /\ options.to_date = Str(<<DayTok(MaxDay)>>)
    /\ options.rebuild_daily
    /\ from_dt = Datetime(1, 0)
    /\ to_dt = Datetime(MaxDay, 0)

\* The instant the rules give for --from: the exact instant of a date-time,
\* midnight at the start of the day of a date.
ExpectedFrom(o) == IF IsDateTime(o) THEN Instant(o) ELSE Midnight(o)

\* The instant the rules give for --to: the exact instant of a date-time;
\* for a date, midnight at the start of the day for rebuild-daily and
\* reweight, midnight at the start of the next day otherwise.
ExpectedTo(o) ==
    IF IsDateTime(o) THEN Instant(o)
    ELSE IF RebuildConsumer THEN Midnight(o)
    ELSE Datetime(o.str[1].v + 1, 0)

IsDateOrDateTime(o) == IsDateOnly(o) \/ IsDateTime(o)

\* --from and --to are both well formed and the end they give is earlier
\* than the start.
EndBeforeStart ==
    /\ ~Truthy(options.date)
    /\ IsDateOrDateTime(options.from_date)
    /\ IsDateOrDateTime(options.to_date)
    /\ DtLess(ExpectedTo(options.to_date), ExpectedFrom(options.from_date))

\* C5: a returned window with both bounds has start <= end; --from and --to
\* that resolve to end < start make the resolution fail with
\* ViolatedPrecondition, and it fails so in no other case (nothing is swapped
\* or clamped).
C5_WindowOrdered ==
    /\ (pc = "returned" /\ ~from_dt.isNone /\ ~to_dt.isNone)
       => ~DtLess(to_dt, from_dt)
    /\ (ParseFinished /\ EndBeforeStart)
       => (pc = "raised" /\ exc.type = "ViolatedPrecondition")
    /\ (pc = "raised" /\ exc.type = "ViolatedPrecondition") => EndBeforeStart

C5_Witness ==
    /\ pc = "raised"
    /\ exc.type = "ViolatedPrecondition"
    /\ IsDateTime(options.from_date)
    /\ IsDateOnly(options.to_date)
    /\ options.from_date.str[1].v = options.to_date.str[1].v
    /\ options.rebuild_daily

\* C6: whenever --date is supplied together with --from or with --to,
\* _parse_dates fails with the invalid-arguments error (ValueError) and
\* returns no window, whatever the verb and the three strings are.
C6_DateExcludesFromTo ==
    (/\ ParseFinished
     /\ ~options.date.isNone
     /\ (~options.from_date.isNone \/ ~options.to_date.isNone))
    => (pc = "raised" /\ exc.type = "ValueError")

\* C7: with none of --date, --from, --to supplied the window (None, None) is
\* returned for every consumer; with only one of --from/--to supplied the
\* other bound is None and no ViolatedPrecondition is raised.
C7_UnboundedWindow ==
    /\ (/\ ParseFinished
        /\ options.date.isNone /\ options.from_date.isNone /\ options.to_date.isNone)
       => (pc = "returned" /\ from_dt = NoneDt /\ to_dt = NoneDt)
    /\ (/\ ParseFinished
        /\ options.date.isNone /\ ~options.from_date.isNone /\ options.to_date.isNone)
       => (exc.type # "ViolatedPrecondition" /\ to_dt = NoneDt)
    /\ (/\ ParseFinished
        /\ options.date.isNone /\ options.from_date.isNone /\ ~options.to_date.isNone)
       => (exc.type # "ViolatedPrecondition" /\ from_dt = NoneDt)

C7_Witness ==
    /\ pc = "returned"
    /\ options.date.isNone /\ options.to_date.isNone
    /\ IsDateTime(options.from_date)
    /\ from_dt = Instant(options.from_date)
    /\ to_dt = NoneDt

\* The options that differ from the present ones only in the verb flags and
\* in --to.
SameFromOptions ==
    {[options EXCEPT !.rebuild_daily = r, !.reweight = w, !.calc_missing = c,
                     !.to_date = t] :
        r \in BOOLEAN, w \in BOOLEAN, c \in BOOLEAN, t \in OptionValues}

\* C8: the start derived from --from does not depend on the verb or on --to:
\* a date-only --from gives midnight at the start of that day, a --from with
\* a time that exact instant, and two resolutions that differ only in the
\* verb or in --to give the same start whenever both succeed.
C8_FromIndependent ==
    (/\ pc = "returned"
     /\ ~Truthy(options.date)
     /\ Truthy(options.from_date))
    => /\ IsDateOrDateTime(options.from_date)
       /\ from_dt = ExpectedFrom(options.from_date)
       /\ \A alt \in SameFromOptions :
             LET r == _parse_dates(alt)
             IN r.exc = NoExc => r.from_dt = from_dt

C8_Witness ==
    /\ pc = "returned"
    /\ CalcMissingConsumer
    /\ IsDateOnly(options.from_date)
    /\ IsDateOnly(options.to_date)
    /\ from_dt = Midnight(options.from_date)
    /\ to_dt # Midnight(options.to_date)

\* An option string that was supplied and is not in its accepted format.
BadDate(o) == ~o.isNone /\ ~IsDateOnly(o)
BadFromTo(o) == ~o.isNone /\ ~IsDateOrDateTime(o)

\* The message that names the first offending option, in the order date,
\* from, to; "" when every supplied string is well formed.
FirstOffenderMsg ==
    IF BadDate(options.date) THEN "Invalid --date option specified."
    ELSE IF BadFromTo(options.from_date) THEN "Invalid --from option specified."
    ELSE IF BadFromTo(options.to_date) THEN "Invalid --to option specified."
    ELSE ""

\* C9: when a supplied --date, --from or --to string cannot be parsed,
\* _parse_dates fails with the ValueError that names the first offending
\* option in the order date, from, to.  (--date together with --from or --to
\* is the case of C6 and is left out here.)
C9_UnparseableNamed ==
    (/\ ParseFinished
     /\ FirstOffenderMsg # ""
     /\ ~(~options.date.isNone
          /\ (~options.from_date.isNone \/ ~options.to_date.isNone)))
    => (pc = "raised" /\ exc = ValueError(FirstOffenderMsg))

(***************************************************************************)
(* Properties of the date-scoped routines (specification Spec)             *)
(***************************************************************************)
\* The run ended in a date-argument error or in the precondition error.
DateErrorRaised ==
    /\ pc = "raised"
    /\ exc.type \in {"ValueError", "ViolatedPrecondition"}

\* C10: for rebuild-daily, reweight and calc-missing, a run that ends in a
\* date-argument error or in the precondition error has not opened, read or
\* written the store before the error.
C10_DateErrorBeforeStore == DateErrorRaised => storeLog = <<>>

(***************************************************************************)
(* Properties of main (specification SpecMain)                             *)
(***************************************************************************)
\* The verbs that were supplied on the command line.
SuppliedVerbs ==
    {v \in FlagVerbs : options[v]} \cup {v \in ValueVerbs : ~options[v].isNone}

\* main is past the validation of the verbs.
PastVerbValidation == pc \notin {"main_args", "main_verbs", "exit"}

\* The configuration has been read.
ConfigRead ==
    \E i \in 1..Len(output) : output[i] = "Using configuration file"

\* C11: main gets past the verb validation only with exactly one of the
\* fourteen verbs supplied; with none or with two or more it exits with an
\* error before the configuration is read and before any store is touched.
C11_ExactlyOneVerb ==
    /\ PastVerbValidation => Cardinality(SuppliedVerbs) = 1
    /\ (Cardinality(SuppliedVerbs) # 1 /\ pc = "exit")
       => /\ exc.type = "SystemExit"
          /\ exc.msg \in {"2", "Must specify one and only one verb."}
          /\ ~ConfigRead
          /\ storeLog = <<>>
    /\ (PastVerbValidation \/ pc = "main_verbs") => options.args <= 1

C11_Witness ==
    /\ pc = "exit"
    /\ exc = SystemExit("Must specify one and only one verb.")
    /\ SuppliedVerbs = {"create", "add_column"}
    /\ options.add_column = Str(<<>>)
    /\ ~ConfigRead

\* An option was supplied (with any value, the empty string included).
Supplied(o) == ~o.isNone

DateVerbSupplied ==
    options.calc_missing \/ options.rebuild_daily \/ options.reweight

\* The command line breaks one of the rules on options.
OptionRuleBroken ==
    \/ Supplied(options.type) /\ ~Supplied(options.add_column)
    \/ Supplied(options.to_name) /\ ~Supplied(options.rename_column)
    \/ Supplied(options.rename_column) /\ ~Supplied(options.to_name)
    \/ Supplied(options.date) /\ ~DateVerbSupplied
    \/ Supplied(options.from_date) /\ ~DateVerbSupplied
    \/ Supplied(options.to_date) /\ ~DateVerbSupplied
    \/ Supplied(options.dest_binding) /\ ~options.transfer

OptionRuleMessages ==
    {"Option --type can only be used with option --add-column",
     "Option --to-name can only be used with option --rename-column",
     "Option --rename-column requires option --to-name",
     "Option --date can only be used with options --calc-missing, --rebuild-daily, or --reweight",
     "Option --from can only be used with options --calc-missing, --rebuild-daily, or --reweight",
     "Option --to can only be used with options --calc-missing, --rebuild-daily, or --reweight",
     "Option --dest-binding can only be used with option --transfer"}

\* C12: a command line with one verb that breaks a rule on the options
\* (--type without add-column, --to-name without rename-column, rename-column
\* without --to-name, --date/--from/--to without a date-scoped verb,
\* --dest-binding without transfer) ends in sys.exit with the message of a
\* rule, before the configuration is read, a routine runs or a store is
\* touched.
C12_OptionRulesFailFast ==
    (/\ OptionRuleBroken
     /\ Cardinality(SuppliedVerbs) = 1
     /\ options.args <= 1
     /\ pc \notin {"main_args", "main_verbs", "main_options"})
    => /\ pc = "exit"
       /\ exc.type = "SystemExit"
       /\ exc.msg \in OptionRuleMessages
       /\ ~ConfigRead
       /\ storeLog = <<>>

(***************************************************************************)
(* Vocabulary of the properties of check_strings                           *)
(***************************************************************************)
\* The runtime kind a declared type asks for.
KindNeeded(type) ==
    IF type = "INTEGER" THEN "int"
    ELSE IF type = "REAL" THEN "float"
    ELSE IF type \in {"STR", "TEXT"} THEN "str"
    ELSE "unknown"

\* A stored value that violates the declared type of its column.
IsViolation(val, type) == val # NoneVal /\ val.kind # KindNeeded(type)

\* The run in progress or last finished, and the table it started from.
ScanStarted == Len(previous) > 0
ThisRun == previous[Len(previous)]
StartTable == ThisRun.table
DeclaredType(c) == db.schema[c].type
ColumnName(c) == db.schema[c].name

\* The cells of a table, and the violating ones.
Cells(tbl) == {<<i, c>> : i \in DOMAIN tbl, c \in 1..Len(db.schema)}
Violations(tbl) == {cell \in Cells(tbl) : IsViolation(tbl[cell[1]][cell[2]], DeclaredType(cell[2]))}

\* Entry e of a report (or write w) is about cell <<i, c>> of tbl.
About(e, tbl, cell) == e.ts = tbl[cell[1]][1] /\ e.obs = ColumnName(cell[2])

IsFixRun(run) == run.options.fix_strings /\ ~run.options.check_strings
Completed(run) == run.outcome # ""
RealFix(run) == IsFixRun(run) /\ ~run.options.dry_run
DryFix(run) == IsFixRun(run) /\ run.options.dry_run

\* C13: a (record, column) pair is in the violation report of a finished scan
\* if and only if its stored value is not null and its kind is not the one the
\* declared type asks for; at every moment each entry of the report and each
\* write is about such a cell and carries its stored value, so a null is never
\* reported and never written to, and a table without mismatches gives an
\* empty report.
C13_ReportIffMismatch ==
    ScanStarted =>
        /\ \A k \in 1..Len(found) :
              \E cell \in Violations(StartTable) :
                 /\ About(found[k], StartTable, cell)
                 /\ found[k].value = StartTable[cell[1]][cell[2]]
        /\ \A k \in 1..Len(writes) :
              \E cell \in Violations(StartTable) : About(writes[k], StartTable, cell)
        /\ pc = "done" =>
              /\ \A cell \in Violations(StartTable) :
                    \E k \in 1..Len(found) : About(found[k], StartTable, cell)
              /\ Len(found) = Cardinality(Violations(StartTable))

\* A finished scan of a table holding a violation and a null.
C13_Witness ==
    /\ pc = "done"
    /\ Len(found) >= 1
    /\ \E cell \in Cells(StartTable) : StartTable[cell[1]][cell[2]] = NoneVal

\* C14: a finished fix run with --dry-run and a finished fix run without it
\* that start from the same table have the same list of entries (time key,
\* column, original value, replacement); the dry run leaves every stored value
\* as it was, so a scan after it finds the same violations.
C14_DryRunSameReport ==
    /\ \A i \in 1..Len(previous), j \in 1..Len(previous) :
          ( /\ Completed(previous[i]) /\ DryFix(previous[i])
            /\ Completed(previous[j]) /\ RealFix(previous[j])
            /\ previous[i].table = previous[j].table )
          => previous[i].found = previous[j].found
    /\ (ScanStarted /\ ThisRun.options.dry_run) => table = StartTable
    /\ \A i \in 1..(Len(previous) - 1) :
          (Completed(previous[i]) /\ DryFix(previous[i]) /\ Completed(previous[i + 1]))
          => /\ previous[i + 1].table = previous[i].table
             /\ Len(previous[i + 1].found) = Len(previous[i].found)
             /\ \A k \in 1..Len(previous[i].found) :
                   /\ previous[i + 1].found[k].ts = previous[i].found[k].ts
                   /\ previous[i + 1].found[k].obs = previous[i].found[k].obs
                   /\ previous[i + 1].found[k].value = previous[i].found[k].value

\* A dry fix run that found a violation, followed by a real fix run.
C14_Witness ==
    /\ Len(previous) = 2
    /\ Completed(previous[1]) /\ DryFix(previous[1])
    /\ Completed(previous[2]) /\ RealFix(previous[2])
    /\ Len(previous[1].found) >= 1

\* C15: after a finished fix run without --dry-run, the next run on the table
\* reports no violation and writes nothing: every repaired cell is null or of
\* its declared type.
C15_RepairIdempotent ==
    /\ \A i \in 1..(Len(previous) - 1) :
          (Completed(previous[i]) /\ RealFix(previous[i]))
          => IF i + 1 = Len(previous)
             THEN found = <<>> /\ writes = <<>>
             ELSE previous[i + 1].found = <<>> /\ previous[i + 1].writes = <<>>
    /\ (ScanStarted /\ pc = "done" /\ RealFix(ThisRun)) => Violations(table) = {}

\* A real fix run that repaired a violation, followed by a finished fix run.
C15_Witness ==
    /\ Len(previous) = 2
    /\ Completed(previous[1]) /\ RealFix(previous[1])
    /\ Len(previous[1].found) >= 1
    /\ Completed(previous[2]) /\ RealFix(previous[2])
    /\ pc = "done"

\* The declared type of the column an entry of the report is about.
TypeOf(e) == DeclaredType(CHOOSE c \in 1..Len(db.schema) : ColumnName(c) = e.obs)

\* The scan was ended by an exception of the coercion.
CoercionAborted == pc = "raised" /\ exc = OverflowError

\* C16: when repairing, the replacement of a violation is the coerced value,
\* of the kind the declared type asks for, when the coercion succeeds and
\* None when it is impossible, never anything else; and a failed coercion
\* never ends the scan.
C16_ReplacementOrNone ==
    /\ (ScanStarted /\ IsFixRun(ThisRun)) =>
          \A k \in 1..Len(found) :
             LET coerced == set_type(found[k].value, TypeOf(found[k]))
             IN IF coerced.exc = NoExc
                THEN /\ found[k].corrected = coerced.val
                     /\ found[k].corrected.kind = KindNeeded(TypeOf(found[k]))
                ELSE found[k].corrected = NoneVal
    /\ ~CoercionAborted

\* The messages of the summary.
AllFixedMessages ==
    {"%d of %d null strings found would have been fixed.",
     "%d of %d null strings found were fixed."}
PartialMessages ==
    {"Could not fix all null strings. %d of %d null strings found would have been fixed.",
     "Could not fix all null strings. %d of %d null strings found were fixed."}

\* A finished fix run in which the repair gave None for some violations but
\* not for all of them.
PartlyRepaired ==
    /\ ScanStarted
    /\ pc = "done"
    /\ IsFixRun(ThisRun)
    /\ \E k \in 1..Len(found) : found[k].corrected = NoneVal
    /\ \E k \in 1..Len(found) : found[k].corrected # NoneVal

\* C17 (as claimed): a fix run in which some but not all violations could be
\* corrected reports the partial outcome "Could not fix all null strings ..."
\* with the repaired count lower than the found count.
C17_PartialOutcomeReported ==
    PartlyRepaired => (ThisRun.outcome \in PartialMessages /\ fixed < Len(found))

\* C17 (amended): a fix run that found violations always reports the
\* all-fixed outcome with the repaired count equal to the found count, also
\* when the repair gave None for some of them; the partial outcome is never
\* reported.
C17_FixRunReportsAllFixed ==
    /\ (ScanStarted /\ pc = "done" /\ IsFixRun(ThisRun) /\ Len(found) > 0) =>
          /\ fixed = Len(found)
          /\ ThisRun.outcome \in AllFixedMessages
    /\ \A k \in 1..Len(output) : output[k] \notin PartialMessages

\* A finished fix run with one violation repaired to None and another to a
\* value.
C17_Witness == PartlyRepaired

\* The scan was ended by a failed point write.
WriteFailed == pc = "raised" /\ exc = OperationalError

\* C18: a failed updateValue ends the scan with its error: the step of the
\* failure and every later step of the run read no record, write nothing and
\* print no report, and every repair written before the failure is still in
\* the table.
C18_WriteFailureTerminates ==
    [][ /\ (pc = "check_strings_rows" /\ pc' = "raised" /\ exc' = OperationalError)
           => UNCHANGED <<table, writes, found, records, output>>
        /\ WriteFailed =>
              /\ pc' = "main"
              /\ UNCHANGED <<table, writes, found, records>>
              /\ output' = <<>>
              /\ ThisRun.outcome = ""
              /\ \A k \in 1..Len(output) : output[k] # Summary
              /\ \A k \in 1..Len(writes) :
                    \E i \in DOMAIN table :
                       /\ table[i][1] = writes[k].ts
                       /\ \E c \in 1..Len(db.schema) :
                             ColumnName(c) = writes[k].obs /\ table[i][c] = writes[k].value
      ]_vars

\* A write failed after an earlier repair had been written.
C18_Witness == WriteFailed /\ Len(writes) >= 1

\* C19: whatever the table holds and whatever types the schema declares, the
\* scan reads every row and reaches the final report; only a failed write
\* (C18) ends it early.
C19_ScanNeverAborts ==
    pc = "raised" => exc = OperationalError

(***************************************************************************)
(* Vocabulary of the properties of the routines that ask                   *)
(***************************************************************************)
\* The calls that change a store: create or drop a database, drop the daily
\* summaries, change the columns, add records, copy into the new database.
MutationEvents ==
    {"create", "drop", "drop_daily", "add_column", "rename_column", "drop_columns",
     "open_with_create", "addRecord", "reconfig"}

Mutated == \E k \in 1..Len(storeLog) : storeLog[k] \in MutationEvents
Answered(a) == \E k \in 1..Len(prompts) : prompts[k].a = a

\* C20: in the routines that drop the summaries, add, rename or drop columns,
\* transfer or reconfigure, no store is created, dropped, written or altered
\* before the operator has answered 'y' to a prompt, and a run in which the
\* operator answers 'n' changes no store.
C20_NoMutationBeforeYes ==
    /\ Mutated => Answered("y")
    /\ Answered("n") => ~Mutated

(***************************************************************************)
(* Further properties of check_strings                                     *)
(***************************************************************************)
\* The point writes the log of the store shows.
PointWrites == Cardinality({k \in 1..Len(storeLog) : storeLog[k] = "updateValue"})

\* The value a cell holds once the writes of the run so far are applied to
\* the table the run started from.
ValueAfterWrites(cell) ==
    IF \E k \in 1..Len(writes) : About(writes[k], StartTable, cell)
    THEN writes[CHOOSE k \in 1..Len(writes) : About(writes[k], StartTable, cell)].value
    ELSE StartTable[cell[1]][cell[2]]

\* C24: with fix and without --dry-run there is one point write per violation
\* found, on the time key and column of that violation and with its
\* replacement, issued before the next record is read; without fix or with
\* --dry-run there is no write; and no cell that was not a violation is
\* changed.
C24_OneWritePerViolation ==
    ScanStarted =>
       /\ IF RealFix(ThisRun)
          THEN /\ Len(writes) = Len(found)
               /\ \A k \in 1..Len(writes) :
                     /\ writes[k].ts = found[k].ts
                     /\ writes[k].obs = found[k].obs
                     /\ writes[k].value = found[k].corrected
          ELSE writes = <<>>
       /\ (pc \in {"check_strings_rows", "check_strings_report", "done"}
              \/ (pc = "raised" /\ exc # OperationalError))
             => PointWrites = Len(writes)
       /\ \A cell \in Cells(StartTable) :
             /\ table[cell[1]][cell[2]] = ValueAfterWrites(cell)
             /\ cell \notin Violations(StartTable)
                   => table[cell[1]][cell[2]] = StartTable[cell[1]][cell[2]]

\* A finished fix run that repaired one record and left a valid one alone.
C24_Witness ==
    /\ ScanStarted
    /\ pc = "done"
    /\ RealFix(ThisRun)
    /\ Len(writes) = 1
    /\ Len(StartTable) = 2
    /\ Cardinality(Violations(StartTable)) = 1

(***************************************************************************)
(* Further properties of main                                              *)
(***************************************************************************)
\* The step at which the routine of a verb starts.
RoutineOf(verb) ==
    IF verb = "create" THEN "createMainDatabase"
    ELSE IF verb = "reconfigure" THEN "reconfigMainDatabase"
    ELSE IF verb = "transfer" THEN "transferDatabase"
    ELSE IF verb = "add_column" THEN "addColumn"
    ELSE IF verb = "rename_column" THEN "renameColumn"
    ELSE IF verb = "drop_columns" THEN "dropColumns"
    ELSE IF verb = "check" THEN "check"
    ELSE IF verb = "update" THEN "update"
    ELSE IF verb = "calc_missing" THEN "calc_missing_bounds"
    ELSE IF verb \in {"check_strings", "fix_strings"} THEN "check_strings"
    ELSE IF verb = "drop_daily" THEN "dropDaily"
    ELSE IF verb = "rebuild_daily" THEN "rebuildDaily_bounds"
    ELSE "reweight_parse"

\* main has gone through its elif chain.
Dispatched ==
    pc \notin {"main_args", "main_verbs", "main_options", "main_config", "main", "exit"}

\* C25: a command line that passes the verb count and the option rules runs
\* exactly one routine, that of its single supplied verb, also when a verb
\* that takes a value was given the empty string.
C25_OneRoutineRuns ==
    Dispatched =>
        /\ Cardinality(SuppliedVerbs) = 1
        /\ \A verb \in SuppliedVerbs : pc = RoutineOf(verb)

(***************************************************************************)
(* Further properties of _parse_dates                                      *)
(***************************************************************************)
\* The calendar day a date or date-time string names.
DayOf(o) == o.str[1].v

\* --from and --to are both given and well formed, without --date, for
\* rebuild-daily or reweight.
RebuildFromTo ==
    /\ RebuildConsumer
    /\ options.date.isNone
    /\ IsDateOrDateTime(options.from_date)
    /\ IsDateOrDateTime(options.to_date)

\* C26: for rebuild-daily and reweight the resolution of --from and --to
\* succeeds whenever the day of --from is not later than the day of --to,
\* also when --from has a time on the day a date-only --to names; it fails
\* with ViolatedPrecondition only when the day of --from is later than the
\* day of --to.
C26_RebuildOrderByDay ==
    (ParseFinished /\ RebuildFromTo) =>
        IF DayOf(options.from_date) <= DayOf(options.to_date)
        THEN pc = "returned"
        ELSE pc = "raised" /\ exc.type = "ViolatedPrecondition"

(***************************************************************************)
(* Further properties of the routines that ask                             *)
(***************************************************************************)
\* The calls on the destination database of a transfer.
DestinationEvents == {"open_with_create", "open_with_create failed", "addRecord"}

DestinationTouched == \E k \in 1..Len(storeLog) : storeLog[k] \in DestinationEvents

\* The run is one in which transferDatabase may transfer.
TransferAllowed ==
    /\ ~options.dry_run
    /\ Truthy(options.dest_binding)
    /\ db.dest # "unknown"
    /\ db.archive = "data"
    /\ Answered("y")

\* C27: transferDatabase opens, creates or writes the destination only in a
\* run that is not a dry run, has a destination binding that resolves, found
\* a source record and got the answer 'y', and in such a run it does; with
\* no destination binding or with an empty source it asks nothing.
C27_TransferOnlyWhenConfirmed ==
    options.transfer =>
        /\ DestinationTouched => TransferAllowed
        /\ (pc = "done" /\ TransferAllowed) => DestinationTouched
        /\ (~Truthy(options.dest_binding) \/ db.archive = "empty") => prompts = <<>>
        /\ options.dry_run => prompts = <<>>

\* A transfer that was confirmed and added the records.
C27_Witness ==
    /\ options.transfer
    /\ pc = "done"
    /\ \E k \in 1..Len(storeLog) : storeLog[k] = "addRecord"
    /\ db.dest = "data"

(***************************************************************************)
(* Properties of all routines: dry runs and connections                    *)
(***************************************************************************)
\* The calls that write to a store.
StoreWrites ==
    MutationEvents
    \cup {"create_daily_tables", "backfill_day_summary", "recalculate_weights",
          "updateValue", "update", "WindSpeedRecalculation.run"}

Written == \E k \in 1..Len(storeLog) : storeLog[k] \in StoreWrites

\* C21: with --dry-run no routine writes to a store, whatever the operator
\* answers and whatever the stores hold at the start, a database without
\* daily summary tables included.
C21_DryRunWritesNothing == options.dry_run => ~Written

\* The calls that open a connection, and the connections now open.
OpenEvents == {"open", "open_initialize", "open_with_create"}

Count(events) == Cardinality({k \in 1..Len(storeLog) : storeLog[k] \in events})

OpenConnections == Count(OpenEvents) - Count({"close"})

\* The routine of the verb has finished, by return or by exception.
RoutineFinished == pc \in {"done", "raised"}

\* C22: when the routine of a verb has finished, on whatever path, every
\* connection it opened has been closed.
C22_ConnectionsReleased == RoutineFinished => OpenConnections = 0

(***************************************************************************)
(* Properties of the prompts                                               *)
(***************************************************************************)
\* C23: the prompt of update takes y and n in either letter case: after 'y'
\* or 'Y' the update goes on, after 'n' or 'N' it is cancelled, and after
\* anything else the question is asked again.
C23_PromptEitherCase ==
    [][ (pc = "update" /\ ~options.dry_run /\ Len(prompts') = Len(prompts) + 1)
        => /\ ans' \in {"y", "Y"} => pc' = "update_weights"
           /\ ans' \in {"n", "N"} => pc' = "done"
           /\ ans' \notin {"y", "Y", "n", "N"} => pc' = "update"
      ]_vars

====
